---- MODULE Spec2Model ----
(***************************************************************************)
(* Model of radar_viewer.py: main() runs get_latest_scans,                 *)
(* download_and_read_scans and create_map one after the other.  The remote *)
(* listing, the download, the decoder and the gridding routine are library *)
(* calls; each answers nondeterministically (a result or an exception).    *)
(***************************************************************************)
EXTENDS Integers, Sequences, FiniteSets, TLC

\* ------------------------------------------------------------------ bounds
\* scan times available per calendar date, and the longest listing returned
MaxTime == 2
MaxScans == 2

\* ------------------------------------------------------- program constants
RADAR_SITES == <<"KCCX", "KDIX">>

\* check_dates: today first, then yesterday
check_dates == <<"today", "yesterday">>

\* the fields asked of the gridding routine and rendered, in rendering order
FIELDS == <<"reflectivity", "velocity", "cross_correlation_ratio">>

FieldSet == {FIELDS[i] : i \in 1..Len(FIELDS)}

OverlayFile(field) ==
    CASE field = "reflectivity" -> "overlay_ref.png"
      [] field = "velocity" -> "overlay_vel.png"
      [] field = "cross_correlation_ratio" -> "overlay_cc.png"

LayerName(field) ==
    CASE field = "reflectivity" -> "Reflectivity"
      [] field = "velocity" -> "Velocity"
      [] field = "cross_correlation_ratio" -> "Correlation Coeff"

\* only the reflectivity branch assigns has_layer = True
SetsHasLayer(field) == field = "reflectivity"

\* ------------------------------------------------------------- environment
\* A scan file of the remote archive: its site and the scan_time parsed from
\* its name.  Files of yesterday's folder are older than files of today's.
TimesOn(date) ==
    IF date = "yesterday" THEN 1..MaxTime ELSE (MaxTime + 1)..(2 * MaxTime)

Injective(q) == \A i, j \in 1..Len(q) : q[i] = q[j] => i = j

SeqsUpTo(S, n) == UNION {[1..k -> S] : k \in 0..n}

\* what conn.get_avail_scans may return for a site and a date: any listing of
\* distinct files of that folder, in any order
Listings(site, date) ==
    {q \in SeqsUpTo({[site |-> site, scan_time |-> t] : t \in TimesOn(date)}, MaxScans) :
        Injective(q)}

\* ... or it raises
Responses(site, date) ==
    {[state |-> "error", scans |-> <<>>]}
        \cup {[state |-> "ok", scans |-> q] : q \in Listings(site, date)}

Pending == [state |-> "pending", scans |-> <<>>]

Range(q) == {q[i] : i \in 1..Len(q)}

\* what conn.download may report as results.success: any of the requested
\* scans, in completion order
SuccessLists(scans) == {q \in SeqsUpTo(Range(scans), Len(scans)) : Injective(q)}

\* ------------------------------------------------------------ pure helpers
\* list.sort(key=scan_time): a stable insertion sort
RECURSIVE Insert(_, _)
Insert(sorted, x) ==
    IF sorted = <<>> THEN <<x>>
    ELSE IF sorted[Len(sorted)].scan_time <= x.scan_time THEN Append(sorted, x)
    ELSE Append(Insert(SubSeq(sorted, 1, Len(sorted) - 1), x), sorted[Len(sorted)])

RECURSIVE SortByTime(_)
SortByTime(q) ==
    IF q = <<>> THEN <<>>
    ELSE Insert(SortByTime(SubSeq(q, 1, Len(q) - 1)), q[Len(q)])

LatestUnsorted(site_scans) == site_scans[Len(site_scans)]

\* site_scans.sort(key=lambda x: x.scan_time); latest = site_scans[-1]
Latest(site_scans) == SortByTime(site_scans)[Len(site_scans)]

ExtendDropsOnError(site_scans, response) ==
    IF response.state = "error" THEN <<>> ELSE site_scans \o response.scans

\* try: found = get_avail_scans(..); if found: site_scans.extend(found)
\* except Exception: print(..)
Extend(site_scans, response) ==
    IF response.state = "ok" THEN site_scans \o response.scans ELSE site_scans

NoScansNever(scans) == FALSE

\* main: if not scans
NoScans(scans) == scans = <<>>

NoRadarsNever(radars) == FALSE

\* main: if not radars
NoRadars(radars) == radars = <<>>

ToDecodeAll(scans, success) ==
    success \o SelectSeq(scans, LAMBDA s : s \notin Range(success))

\* for download in results.success
ToDecode(scans, success) == success

AddToReplaces(layers, name) == <<name>>

\* ImageOverlay(...).add_to(m)
AddTo(layers, name) == Append(layers, name)

InGridAlways(fields, field) == TRUE

\* generate_image_overlay: field in grid.fields
InGrid(fields, field) == field \in fields

RmtreeKeeps(exists) == exists

\* if os.path.exists('radar_data'): shutil.rmtree('radar_data')
Rmtree(exists) == FALSE

\* ------------------------------------------------------------------- state
VARIABLES
    pc,          \* position of main()
    status,      \* "running", "exit0" (main returned) or "exit1" (sys.exit(1))
    files,       \* files written to the working directory by this run
    dirExists,   \* whether the directory radar_data exists
    log,         \* printed messages, each <<message, argument>>
    stages,      \* the pipeline stages entered so far, in order
    si, di,      \* get_latest_scans: index of the site and date being checked
    avail,       \* get_latest_scans: what get_avail_scans answered, per site and date
    site_scans,  \* get_latest_scans: site_scans of the current site
    scans,       \* get_latest_scans: scans / main: scans
    success,     \* download_and_read_scans: results.success
    todo,        \* download_and_read_scans: files the read loop still has to visit
    reads,       \* download_and_read_scans: the calls made to pyart.io.read
    radars,      \* download_and_read_scans: radars / main: radars
    grid,        \* create_map: grid ([made, fields])
    fi,          \* create_map: index of the field whose overlay is next
    layers,      \* create_map: the overlays added to the map m
    has_layer    \* create_map: has_layer

vars == <<pc, status, files, dirExists, log, stages, si, di, avail, site_scans,
          scans, success, todo, reads, radars, grid, fi, layers, has_layer>>

listVars == <<si, di, avail, site_scans, scans>>
loadVars == <<success, todo, reads, radars>>
mapVars == <<grid, fi, layers, has_layer>>

NoAvail == [s \in Range(RADAR_SITES) |-> [d \in Range(check_dates) |-> Pending]]

Init ==
    /\ pc = "main"
    /\ status = "running"
    /\ files = {}
    /\ dirExists = FALSE
    /\ log = {}
    /\ stages = <<>>
    /\ si = 1
    /\ di = 1
    /\ avail = NoAvail
    /\ site_scans = <<>>
    /\ scans = <<>>
    /\ success = <<>>
    /\ todo = <<>>
    /\ reads = <<>>
    /\ radars = <<>>
    /\ grid = [made |-> FALSE, fields |-> {}]
    /\ fi = 1
    /\ layers = <<>>
    /\ has_layer = FALSE

\* ----------------------------------------------------------------- actions
\* main: write favicon.ico, call get_latest_scans (first site begins)
Start ==
    /\ pc = "main"
    /\ files' = files \cup {"favicon.ico"}
    /\ stages' = Append(stages, "listing")
    /\ log' = log \cup {<<"Checking", RADAR_SITES[1]>>}
    /\ pc' = "check_date"
    /\ UNCHANGED <<status, dirExists, listVars, loadVars, mapVars>>

\* get_latest_scans: one pass of "for date in check_dates"
CheckDate ==
    /\ pc = "check_date"
    /\ LET site == RADAR_SITES[si]
           date == check_dates[di]
       IN \E response \in Responses(site, date) :
            /\ avail' = [avail EXCEPT ![site][date] = response]
            /\ site_scans' = Extend(site_scans, response)
            /\ log' = IF response.state = "error"
                      THEN log \cup {<<"Error checking", site>>}
                      ELSE log
    /\ IF di < Len(check_dates)
       THEN /\ di' = di + 1
            /\ pc' = pc
       ELSE /\ di' = di
            /\ pc' = "select"
    /\ UNCHANGED <<status, files, dirExists, stages, si, scans, loadVars, mapVars>>

\* get_latest_scans: "if site_scans: ... else: ...", then the next site begins
\* (site_scans = []) or the function returns
SelectLatest ==
    /\ pc = "select"
    /\ LET site == RADAR_SITES[si]
           said == IF site_scans # <<>>
                   THEN {<<"Found newest scan", site>>}
                   ELSE {<<"Warning: No scans found", site>>}
       IN /\ scans' = IF site_scans # <<>>
                      THEN Append(scans, Latest(site_scans))
                      ELSE scans
          /\ IF si < Len(RADAR_SITES)
             THEN /\ si' = si + 1
                  /\ di' = 1
                  /\ site_scans' = <<>>
                  /\ log' = log \cup said \cup {<<"Checking", RADAR_SITES[si + 1]>>}
                  /\ pc' = "check_date"
             ELSE /\ UNCHANGED <<si, di, site_scans>>
                  /\ log' = log \cup said
                  /\ pc' = "listed"
    /\ UNCHANGED <<status, files, dirExists, stages, avail, loadVars, mapVars>>

\* main: "if not scans: print CRITICAL; sys.exit(1)"; the locals of
\* get_latest_scans are gone
CheckScans ==
    /\ pc = "listed"
    /\ si' = 1
    /\ di' = 1
    /\ avail' = NoAvail
    /\ site_scans' = <<>>
    /\ IF NoScans(scans)
       THEN /\ log' = log \cup {<<"CRITICAL: No scans found for any radar site", "">>}
            /\ status' = "exit1"
            /\ pc' = "exit"
       ELSE /\ pc' = "download"
            /\ UNCHANGED <<log, status>>
    /\ UNCHANGED <<files, dirExists, stages, scans, loadVars, mapVars>>

\* download_and_read_scans: makedirs, conn.download, radars = []
Download ==
    /\ pc = "download"
    /\ stages' = Append(stages, "download")
    /\ dirExists' = TRUE
    /\ \E ok \in SuccessLists(scans) :
        /\ success' = ok
        /\ todo' = ToDecode(scans, ok)
    /\ reads' = <<>>
    /\ radars' = <<>>
    /\ pc' = "read"
    /\ UNCHANGED <<status, files, log, listVars, mapVars>>

\* download_and_read_scans: one pass of "for download in results.success";
\* a radar is modelled as the scan it was decoded from
ReadOne ==
    /\ pc = "read"
    /\ todo # <<>>
    /\ LET download == Head(todo)
       IN \E decoded \in BOOLEAN :
            /\ reads' = Append(reads, [file |-> download, ok |-> decoded])
            /\ radars' = IF decoded THEN Append(radars, download) ELSE radars
            /\ log' = log \cup {<<IF decoded THEN "Loaded data" ELSE "Failed to read",
                                  download.site>>}
    /\ todo' = Tail(todo)
    /\ UNCHANGED <<pc, status, files, dirExists, stages, listVars, success, mapVars>>

\* download_and_read_scans returns; main: "if not radars: print CRITICAL; sys.exit(1)"
CheckRadars ==
    /\ pc = "read"
    /\ todo = <<>>
    /\ IF NoRadars(radars)
       THEN /\ log' = log \cup {<<"CRITICAL: Scans found but failed to read", "">>}
            /\ status' = "exit1"
            /\ pc' = "exit"
       ELSE /\ pc' = "create_map"
            /\ UNCHANGED <<log, status>>
    /\ UNCHANGED <<files, dirExists, stages, listVars, loadVars, mapVars>>

\* create_map: "if not radars: exit", then grid_from_radars, which raises or
\* returns a grid holding some of the requested fields
Gridding ==
    /\ pc = "create_map"
    /\ IF radars = <<>>
       THEN /\ log' = log \cup {<<"Error: No radar objects available to grid", "">>}
            /\ status' = "exit1"
            /\ pc' = "exit"
            /\ UNCHANGED <<stages, grid>>
       ELSE /\ stages' = Append(stages, "gridding")
            /\ \E raised \in BOOLEAN, fields \in SUBSET FieldSet :
                IF raised
                THEN /\ log' = log \cup {<<"Gridding Failed", "">>}
                     /\ status' = "exit1"
                     /\ pc' = "exit"
                     /\ UNCHANGED grid
                ELSE /\ grid' = [made |-> TRUE, fields |-> fields]
                     /\ pc' = "base_map"
                     /\ UNCHANGED <<log, status>>
    /\ UNCHANGED <<files, dirExists, listVars, loadVars, fi, layers, has_layer>>

\* create_map: folium.Map, favicon link, image_bounds, has_layer = False
BaseMap ==
    /\ pc = "base_map"
    /\ stages' = Append(stages, "render")
    /\ layers' = <<>>
    /\ has_layer' = FALSE
    /\ fi' = 1
    /\ pc' = "overlay"
    /\ UNCHANGED <<status, files, dirExists, log, listVars, loadVars, grid>>

\* create_map: one "if generate_image_overlay(grid, field, file, ..): add_to(m)"
Overlay ==
    /\ pc = "overlay"
    /\ LET field == FIELDS[fi]
       IN IF InGrid(grid.fields, field)
          THEN /\ files' = files \cup {OverlayFile(field)}
               /\ log' = log \cup {<<"Generated", OverlayFile(field)>>}
               /\ layers' = AddTo(layers, LayerName(field))
               /\ has_layer' = (has_layer \/ SetsHasLayer(field))
          ELSE /\ log' = log \cup {<<"Skipping", field>>}
               /\ UNCHANGED <<files, layers, has_layer>>
    /\ IF fi < Len(FIELDS)
       THEN /\ fi' = fi + 1
            /\ pc' = pc
       ELSE /\ fi' = fi
            /\ pc' = "save"
    /\ UNCHANGED <<status, dirExists, stages, listVars, loadVars, grid>>

\* create_map: LayerControl, m.save('index.html'), "if not has_layer: print Warning"
SaveMap ==
    /\ pc = "save"
    /\ files' = files \cup {"index.html"}
    /\ log' = log \cup {<<"Map saved to index.html", "">>}
                  \cup (IF ~has_layer
                        THEN {<<"Warning: Map created but no layers were generated", "">>}
                        ELSE {})
    /\ pc' = "cleanup"
    /\ UNCHANGED <<status, dirExists, stages, listVars, loadVars, mapVars>>

\* main: cleanup, then main returns
Cleanup ==
    /\ pc = "cleanup"
    /\ dirExists' = IF dirExists THEN Rmtree(dirExists) ELSE dirExists
    /\ status' = "exit0"
    /\ pc' = "exit"
    /\ UNCHANGED <<files, log, stages, listVars, loadVars, mapVars>>

Next ==
    \/ Start
    \/ CheckDate
    \/ SelectLatest
    \/ CheckScans
    \/ Download
    \/ ReadOne
    \/ CheckRadars
    \/ Gridding
    \/ BaseMap
    \/ Overlay
    \/ SaveMap
    \/ Cleanup

Spec == Init /\ [][Next]_vars

\* ------------------------------------------------------------- properties
Sites == Range(RADAR_SITES)

\* every scan get_avail_scans listed for a site, today's first
ListedFor(site) == avail[site]["today"].scans \o avail[site]["yesterday"].scans

ScansOf(site) == SelectSeq(scans, LAMBDA s : s.site = site)

Listing == pc \in {"check_date", "select", "listed"}

AllStages == <<"listing", "download", "gridding", "render">>

Entered(stage) == stage \in Range(stages)

\* C1: when get_latest_scans returns, every site with a listed scan has exactly
\* one scan in the result, a listed one whose scan_time is at least that of every
\* scan listed for the site on both dates; a site with nothing listed has none;
\* the result has at most one scan per site, in site order.
C1_NewestPerSite ==
    pc = "listed" =>
        /\ \A site \in Sites :
            IF ListedFor(site) # <<>>
            THEN /\ Len(ScansOf(site)) = 1
                 /\ ScansOf(site)[1] \in Range(ListedFor(site))
                 /\ \A x \in Range(ListedFor(site)) :
                        ScansOf(site)[1].scan_time >= x.scan_time
            ELSE ScansOf(site) = <<>>
        /\ Len(scans) <= Len(RADAR_SITES)
        /\ scans = ScansOf(RADAR_SITES[1]) \o ScansOf(RADAR_SITES[2])

\* a site listed on both dates, the other site not at all
C1_Witness ==
    /\ pc = "listed"
    /\ Len(avail["KCCX"]["today"].scans) = 2
    /\ avail["KCCX"]["yesterday"].scans # <<>>
    /\ ListedFor("KDIX") = <<>>
    /\ Len(scans) = 1

\* C2: the stages are entered in the order listing, download/decode, gridding,
\* rendering, each at most once and only after the stage before it has
\* finished with a non-empty result (scans, radars, a grid).
C2_StagesInOrder ==
    /\ Len(stages) <= Len(AllStages)
    /\ stages = SubSeq(AllStages, 1, Len(stages))
    /\ Listing => stages = <<"listing">>
    /\ pc \in {"download", "exit"} \/ Len(stages) >= 2 => ~Listing
    /\ Entered("download") => scans # <<>>
    /\ pc = "read" => Len(stages) = 2
    /\ Entered("gridding") => radars # <<>> /\ todo = <<>>
    /\ pc = "base_map" => Len(stages) = 3
    /\ Entered("render") => grid.made
    /\ pc \in {"overlay", "save", "cleanup"} => Len(stages) = 4

C2_Witness == status = "exit0" /\ stages = AllStages

LayerNames == {LayerName(f) : f \in FieldSet}

\* C3 as stated: whenever index.html is written the map carries all three layers.
C3_AlwaysThreeLayers == "index.html" \in files => Range(layers) = LayerNames

\* C3 amended: whenever index.html is written the map carries one layer for each
\* of the three fields present in the grid and no other: at most three, and
\* three exactly when the grid holds all three fields.
C3_LayerPerPresentField ==
    "index.html" \in files =>
        /\ Range(layers) \subseteq LayerNames
        /\ Injective(layers)
        /\ Len(layers) = Cardinality(grid.fields)
        /\ Len(layers) = Len(FIELDS) <=> grid.fields = FieldSet

C3_Witness == "index.html" \in files /\ Len(layers) = 2

Outputs == {"index.html"} \cup {OverlayFile(f) : f \in FieldSet}

\* C4: index.html is written only when a scan was listed, a radar decoded and
\* the grid made; a run exits 0 only then; a run with no scan, no radar or a
\* failed gridding logs, exits 1 from the stage that failed and writes neither
\* index.html nor an overlay image.
C4_ExitOnFailure ==
    /\ "index.html" \in files \/ status = "exit0" =>
            scans # <<>> /\ radars # <<>> /\ grid.made
    /\ status = "running" /\ pc \in {"download", "read"} => scans # <<>>
    /\ status = "running" /\ pc = "create_map" => radars # <<>>
    /\ status = "running" /\ pc \in {"base_map", "overlay", "save", "cleanup"} => grid.made
    /\ status = "exit1" =>
        /\ files \cap Outputs = {}
        /\ ~grid.made
        /\ IF scans = <<>>
           THEN /\ stages = <<"listing">>
                /\ <<"CRITICAL: No scans found for any radar site", "">> \in log
           ELSE IF radars = <<>>
           THEN /\ stages = <<"listing", "download">>
                /\ <<"CRITICAL: Scans found but failed to read", "">> \in log
           ELSE /\ stages = <<"listing", "download", "gridding">>
                /\ <<"Gridding Failed", "">> \in log

\* every downloaded file failed to decode
C4_Witness == status = "exit1" /\ reads # <<>> /\ radars = <<>>

\* C5 as stated: when the run has ended, with status 0 or 1, radar_data does not exist.
C5_NoDownloadDirAtExit == status # "running" => ~dirExists

\* C6: an exception of get_avail_scans only loses that one query: site_scans
\* holds what the site's other queries listed, the listing goes on without
\* exiting, a site listed on one date only gets the newest scan of that date,
\* and a site with nothing listed is left out with a warning.
C6_ListingErrorIsLocal ==
    Listing =>
        /\ status = "running"
        /\ site_scans = ListedFor(RADAR_SITES[si])
        /\ pc = "listed" => \A site \in Sites :
            /\ <<"Error checking", site>> \in log
                    <=> \E d \in Range(check_dates) : avail[site][d].state = "error"
            /\ \A d, e \in Range(check_dates) :
                    avail[site][d].state = "error" /\ avail[site][e].scans # <<>> =>
                        /\ Len(ScansOf(site)) = 1
                        /\ ScansOf(site)[1] \in Range(avail[site][e].scans)
                        /\ \A x \in Range(avail[site][e].scans) :
                                ScansOf(site)[1].scan_time >= x.scan_time
            /\ ListedFor(site) = <<>> =>
                    /\ ScansOf(site) = <<>>
                    /\ <<"Warning: No scans found", site>> \in log

\* one query of each site raised, the other listed scans
C6_Witness ==
    /\ pc = "listed"
    /\ avail["KCCX"]["today"].state = "error"
    /\ avail["KCCX"]["yesterday"].scans # <<>>
    /\ avail["KDIX"]["today"].scans # <<>>
    /\ avail["KDIX"]["yesterday"].state = "error"
    /\ Len(scans) = 2

ReadLoopDone == Entered("download") /\ todo = <<>>

DecodedFiles ==
    LET ok == SelectSeq(reads, LAMBDA r : r.ok)
    IN [i \in 1..Len(ok) |-> ok[i].file]

\* C7: pyart.io.read is called on the successfully downloaded files only, in
\* results.success order, on every one of them whatever the earlier reads did;
\* radars holds the ones that decoded, in that order; gridding is entered if
\* and only if radars is not empty.
C7_RadarsAreDecodedDownloads ==
    /\ Len(reads) <= Len(success)
    /\ \A i \in 1..Len(reads) : reads[i].file = success[i]
    /\ radars = DecodedFiles
    /\ ReadLoopDone => Len(reads) = Len(success)
    /\ Entered("gridding") => ReadLoopDone /\ radars # <<>>
    /\ ReadLoopDone /\ pc # "read" =>
            (radars # <<>> <=> pc = "create_map" \/ Entered("gridding"))

\* one download failed to decode, the next one decoded, and gridding started
C7_Witness ==
    /\ Len(success) = 2
    /\ Len(reads) = 2
    /\ ~reads[1].ok
    /\ reads[2].ok
    /\ Entered("gridding")

NoLayerWarning == <<"Warning: Map created but no layers were generated", "">>

\* C8 as stated: the warning is printed if and only if no overlay was added.
C8_WarningIffNoLayers ==
    "index.html" \in files => (NoLayerWarning \in log <=> layers = <<>>)

Rendered(i) == pc \in {"save", "cleanup"} \/ status = "exit0" \/ (pc = "overlay" /\ i < fi)

PresentLayers ==
    LET present == SelectSeq(FIELDS, LAMBDA f : f \in grid.fields)
    IN [i \in 1..Len(present) |-> LayerName(present[i])]

\* C9: once a field has been handled, its layer is on the map iff the field is
\* in the grid, and its PNG is written iff the layer is on the map; a missing
\* field is skipped; the layers are in the order reflectivity, velocity,
\* correlation coefficient; whatever fields the grid holds, index.html is
\* written and the run exits 0.
C9_LayerIffFieldPresent ==
    /\ \A i \in 1..Len(FIELDS) : Rendered(i) =>
        /\ LayerName(FIELDS[i]) \in Range(layers) <=> FIELDS[i] \in grid.fields
        /\ OverlayFile(FIELDS[i]) \in files <=> LayerName(FIELDS[i]) \in Range(layers)
        /\ <<"Skipping", FIELDS[i]>> \in log <=> FIELDS[i] \notin grid.fields
    /\ Rendered(Len(FIELDS)) => layers = PresentLayers
    /\ grid.made => status # "exit1"
    /\ grid.made /\ pc = "exit" => status = "exit0" /\ "index.html" \in files

\* reflectivity is missing, the other two fields are rendered
C9_Witness ==
    /\ status = "exit0"
    /\ grid.fields = {"velocity", "cross_correlation_ratio"}
    /\ layers = <<"Velocity", "Correlation Coeff">>

\* C10: radar_data is removed only once index.html is saved, as the last step;
\* after exit status 0 it does not exist and index.html and favicon.ico do.
C10_CleanupLast ==
    /\ pc = "cleanup" => dirExists /\ "index.html" \in files
    /\ Entered("download") /\ ~dirExists => status = "exit0" /\ "index.html" \in files
    /\ status = "exit0" => ~dirExists /\ {"index.html", "favicon.ico"} \subseteq files

C10_Witness == status = "exit0" /\ ~dirExists /\ Entered("download")

====
